---- MODULE Spec2Model ----
(***************************************************************************)
(* A model of the PZ Emporium client code: the ShoppingCart class with its *)
(* localStorage persistence, badge, cart modal and notification, and the   *)
(* DataLoader class with the DOMContentLoaded handler that drives it.      *)
(*                                                                         *)
(* Prices are held in cents, so 4.99 is 499.  JavaScript values are tagged *)
(* records [k, s, n]: k is the kind, s the text of a string, n the number  *)
(* (or the decimal suffix of a generated string such as item-<n>).         *)
(* The page is one that carries the cart markup (cart-badge, cart-modal,   *)
(* cart-items, cart-total, empty-cart).                                    *)
(***************************************************************************)
EXTENDS Integers, Sequences, FiniteSets

VARIABLES
  cart,        \* this.cart of the page's ShoppingCart: [k, items]
  loaded,      \* TRUE when `const cart = new ShoppingCart()` completed
  store,       \* localStorage entry under 'pz-emporium-cart': [k, items]
  badge,       \* #cart-badge: [hidden, text]
  modalOpen,   \* #cart-modal does not carry class hidden
  view,        \* #cart-items / #cart-total / #empty-cart as last rendered
  notes,       \* .notification elements attached to the document, in order
  noteEl,      \* every notification element created: [msg, anim, timer]
  alertMsg,    \* the alert() shown by the handler that ran last
  now,         \* Date.now()
  last,        \* the last operation: [op, idx, n, raised, io]
  startedEmpty,\* the cart was the empty list right after construction
  net,         \* on a cart that started empty: the addItem calls completed
               \* minus the items taken out by in-range removes and clears
  tab,         \* the ShoppingCart of a second tab on the same origin:
               \* [open, cart]
  content,     \* dataLoader.content
  siteContent, \* window.siteContent
  fetched,     \* fetches of content.json issued in this page load
  page,        \* the page the DOMContentLoaded handler runs on
  hpc,         \* position of the DOMContentLoaded handler
  opc,         \* position of each other caller of dataLoader.loadContent()
  ret,         \* what each loadContent() call returned
  lastLoad,    \* the last loadJSON call completed: [file, outcome, raised, value]
  elems,       \* the elements that carry data-content, as they show now
  container    \* what the page's mods/tools/tips container shows

cartVars == <<cart, loaded, store, badge, modalOpen, view, notes, noteEl,
              alertMsg, now, last, startedEmpty, net, tab>>
loaderVars == <<content, siteContent, fetched, page, hpc, opc, ret, lastLoad,
                elems, container>>
vars == <<cart, loaded, store, badge, modalOpen, view, notes, noteEl,
          alertMsg, now, last, startedEmpty, net, tab,
          content, siteContent, fetched, page, hpc, opc, ret, lastLoad,
          elems, container>>

----------------------------------------------------------------------------
\* Bounds of the model.

\* the longest cart the model builds
MaxItems == 2
\* the largest value of the clock
MaxNow == 0
\* notification elements alive at once (attached, or with a timer pending)
MaxNotes == 2
\* other callers of dataLoader.loadContent() besides the page's own handler
MaxOther == 1

----------------------------------------------------------------------------
\* JavaScript values.

JS(k, s, n) == [k |-> k, s |-> s, n |-> n]
Undefined == JS("undefined", "", 0)
Null == JS("null", "", 0)
NaN == JS("NaN", "", 0)
Num(n) == JS("number", "", n)
Str(s) == JS("string", s, 0)
\* a key that a JSON object does not have
Absent == JS("absent", "", 0)

\* what `v || other` tests
Falsy(v) ==
  \/ v.k \in {"undefined", "null", "NaN"}
  \/ v.k = "string" /\ v.s = "" /\ v.n = 0
  \/ v.k = "number" /\ v.n = 0

Or(v, other) == IF Falsy(v) THEN other ELSE v

\* the number a string starts with, in cents
StringToNumber(s) ==
  CASE s = "2.50" -> Num(250)
    [] s = "3.25" -> Num(325)
    [] s = "-1.00" -> Num(-100)
    [] OTHER -> NaN

parseFloat(v) ==
  CASE v.k = "number" -> v
    [] v.k = "string" -> StringToNumber(v.s)
    [] OTHER -> NaN

\* a + b of getTotal's reduce, on the values a price can hold
Plus(a, b) ==
  CASE a.k = "NaN" \/ b.k \in {"NaN", "undefined"} -> NaN
    [] b.k = "null" -> a
    [] OTHER -> Num(a.n + b.n)

\* `${v}` in a template literal
toText(v) ==
  CASE v.k = "undefined" -> Str("undefined")
    [] v.k = "null" -> Str("null")
    [] v.k = "NaN" -> Str("NaN")
    [] OTHER -> v

\* v.toFixed(2): defined on numbers only
toFixedRaises(v) == v.k \notin {"number", "NaN"}
toFixed(v) == IF v.k = "number" THEN JS("string", "fixed2", v.n) ELSE Str("NaN")

----------------------------------------------------------------------------
\* JSON.stringify and JSON.parse of the cart.

EmptyCart == [k |-> "array", items |-> << >>]

stringifyField(v) ==
  CASE v.k = "undefined" -> Absent
    [] v.k = "NaN" -> Null
    [] OTHER -> v

stringifyItem(it) ==
  [id |-> stringifyField(it.id), name |-> stringifyField(it.name),
   price |-> stringifyField(it.price),
   description |-> stringifyField(it.description),
   type |-> stringifyField(it.type)]

stringify(c) ==
  [k |-> c.k, items |-> [i \in 1..Len(c.items) |-> stringifyItem(c.items[i])]]

parseField(v) == IF v.k = "absent" THEN Undefined ELSE v

parseItem(it) ==
  [id |-> parseField(it.id), name |-> parseField(it.name),
   price |-> parseField(it.price),
   description |-> parseField(it.description),
   type |-> parseField(it.type)]

parseRaises(text) == text.k = "malformed"

parse(text) ==
  [k |-> text.k, items |-> [i \in 1..Len(text.items) |-> parseItem(text.items[i])]]

\* the texts the key can hold that no cart wrote
NoEntry == [k |-> "absent", items |-> << >>]
ForeignTexts ==
  { [k |-> kk, items |-> << >>] : kk \in {"empty", "malformed", "null", "object"} }

----------------------------------------------------------------------------
\* The page as the ShoppingCart methods see and change it.

\* no alert() was shown by the handler that ran last
NoAlert == [kind |-> "none", total |-> Str("")]

Cur ==
  [cart |-> cart, store |-> store, badge |-> badge, modalOpen |-> modalOpen,
   view |-> view, notes |-> notes, noteEl |-> noteEl, alertMsg |-> NoAlert,
   raised |-> FALSE]

Raise(st) == [st EXCEPT !.raised = TRUE]

NoteIds == 1..MaxNotes
Msg(kind, name) == [kind |-> kind, name |-> name]
NoMsg == Msg("none", Str(""))
NoNote == [msg |-> NoMsg, anim |-> "none", timer |-> "none"]

\* the markup of a page before any script has run
MarkupBadge == [hidden |-> TRUE, text |-> Num(0)]
MarkupView ==
  [rows |-> << >>, total |-> Str(""), emptyHidden |-> FALSE, totalHidden |-> FALSE]

\* elements that are neither attached nor awaited by a timer can be collected
FreeNotes(st) ==
  { id \in NoteIds : st.noteEl[id].timer = "none" /\ \A j \in 1..Len(st.notes) : st.notes[j] # id }
NewNote(st) == CHOOSE id \in FreeNotes(st) : \A other \in FreeNotes(st) : id <= other

\* a remove that takes whichever notification is in the page
DetachAny(seq, id) == IF seq = << >> THEN seq ELSE Tail(seq)

Detach(seq, id) == SelectSeq(seq, LAMBDA x : x # id)

----------------------------------------------------------------------------
\* class ShoppingCart


\* loadCart without its try/catch
loadCartNoCatch(text, rok) ==
  [raised |-> ~rok \/ (text.k \notin {"absent", "empty"} /\ parseRaises(text)),
   value |-> IF ~rok \/ text.k \in {"absent", "empty"} \/ parseRaises(text)
             THEN EmptyCart ELSE parse(text)]

loadCart(text, rok) ==
  [raised |-> FALSE,
   value |-> IF ~rok THEN EmptyCart
             ELSE IF text.k \in {"absent", "empty"} THEN EmptyCart
             ELSE IF parseRaises(text) THEN EmptyCart
             ELSE parse(text)]


\* saveCart without its try/catch
saveCartNoCatch(st, wok) ==
  IF wok THEN [st EXCEPT !.store = stringify(st.cart)] ELSE Raise(st)

saveCart(st, wok) ==
  IF wok THEN [st EXCEPT !.store = stringify(st.cart)] ELSE st

getItemCountRaises(c) == c.k = "null"
getItemCount(c) == IF c.k = "array" THEN Num(Len(c.items)) ELSE Undefined

RECURSIVE reduce(_, _)
reduce(items, sum) ==
  IF items = << >> THEN sum ELSE reduce(Tail(items), Plus(sum, Head(items).price))

getTotalRaises(c) == c.k # "array"
getTotal(c) == reduce(c.items, Num(0))


\* updateCartDisplay that shows the badge and never hides it again
updateCartDisplayNeverHides(st) ==
  IF st.raised THEN st
  ELSE IF getItemCountRaises(st.cart) THEN Raise(st)
  ELSE LET count == getItemCount(st.cart) IN
       IF count.k = "number" /\ count.n > 0
       THEN [st EXCEPT !.badge = [hidden |-> FALSE, text |-> count]]
       ELSE st

updateCartDisplay(st) ==
  IF st.raised THEN st
  ELSE IF getItemCountRaises(st.cart) THEN Raise(st)
  ELSE LET count == getItemCount(st.cart) IN
       IF count.k = "number" /\ count.n > 0
       THEN [st EXCEPT !.badge = [hidden |-> FALSE, text |-> count]]
       ELSE [st EXCEPT !.badge.hidden = TRUE]


\* showNotification that leaves the existing notification in place
showNotificationKeepsExisting(st, message) ==
  IF st.raised THEN st
  ELSE LET id == NewNote(st)
       IN [st EXCEPT !.notes = Append(st.notes, id),
                     !.noteEl[id] = [msg |-> message, anim |-> "slideInRight",
                                     timer |-> "t3000"]]

showNotification(st, message) ==
  IF st.raised THEN st
  ELSE LET id == NewNote(st)
           kept == IF st.notes # << >> THEN Tail(st.notes) ELSE st.notes
       IN [st EXCEPT !.notes = Append(kept, id),
                     !.noteEl[id] = [msg |-> message, anim |-> "slideInRight",
                                     timer |-> "t3000"]]

GenId(t) == JS("string", "item-", t)

CartItem(item, t) ==
  [id |-> Or(item.id, GenId(t)),
   name |-> item.name,
   price |-> parseFloat(item.price),
   description |-> Or(item.description, Str("")),
   type |-> Or(item.type, Str("product"))]

addItem(st, item, t, wok) ==
  IF st.cart.k # "array" THEN Raise(st)
  ELSE LET pushed == [st EXCEPT !.cart.items = Append(@, CartItem(item, t))]
       IN showNotification(updateCartDisplay(saveCart(pushed, wok)),
                           Msg("added", toText(item.name)))


\* splice that starts one entry late
spliceStartOneLate(items, index) ==
  IF index + 1 < Len(items) THEN index + 1 ELSE Len(items)

\* this.cart.splice(index, 1): where it starts, what is left of the list,
\* and whether it took an entry out
spliceStart(items, index) ==
  IF index < 0
  THEN (IF Len(items) + index > 0 THEN Len(items) + index ELSE 0)
  ELSE (IF index < Len(items) THEN index ELSE Len(items))


\* splice(index) without its delete count: everything from index on goes
spliceToEnd(items, index) == SubSeq(items, 1, spliceStart(items, index))

splice(items, index) ==
  LET start == spliceStart(items, index)
  IN SubSeq(items, 1, start) \o SubSeq(items, start + 2, Len(items))

spliceTook(items, index) == spliceStart(items, index) < Len(items)


\* the range check without its lower bound
InRangeNoLowerBound(c, index) == c.k = "array" /\ index < Len(c.items)

InRange(c, index) == c.k = "array" /\ index >= 0 /\ index < Len(c.items)

\* removedItem.name raises when splice took nothing out
removeItem(st, index, wok) ==
  IF InRange(st.cart, index)
  THEN LET items == st.cart.items
           spliced == [st EXCEPT !.cart.items = splice(items, index)]
           shown == updateCartDisplay(saveCart(spliced, wok))
       IN IF ~spliceTook(items, index) THEN Raise(shown)
          ELSE showNotification(shown,
                 Msg("removed", toText(items[spliceStart(items, index) + 1].name)))
  ELSE st


\* clearCart that does not update the badge
clearCartNoDisplay(st, wok) ==
  LET emptied == [st EXCEPT !.cart = EmptyCart]
  IN showNotification(saveCart(emptied, wok), Msg("cleared", Str("")))

clearCart(st, wok) ==
  LET emptied == [st EXCEPT !.cart = EmptyCart]
  IN showNotification(updateCartDisplay(saveCart(emptied, wok)),
                      Msg("cleared", Str("")))

Row(item, index) ==
  [name |-> toText(item.name), description |-> toText(item.description),
   price |-> toFixed(item.price), index |-> index]

\* the rows forEach appends before item.price.toFixed(2) raises, if it does
RenderedUpTo(items) ==
  LET bad == { i \in 1..Len(items) : toFixedRaises(items[i].price) }
  IN IF bad = {} THEN Len(items)
     ELSE (CHOOSE i \in bad : \A j \in bad : i <= j) - 1

renderCartModal(st) ==
  IF st.cart.k = "null" THEN Raise([st EXCEPT !.view.rows = << >>])
  ELSE IF st.cart.k = "array" /\ Len(st.cart.items) = 0
  THEN [st EXCEPT !.view.rows = << >>, !.view.emptyHidden = FALSE,
                  !.view.totalHidden = TRUE]
  ELSE IF st.cart.k # "array"
  THEN Raise([st EXCEPT !.view.rows = << >>, !.view.emptyHidden = TRUE,
                        !.view.totalHidden = FALSE])
  ELSE LET items == st.cart.items
           n == RenderedUpTo(items)
           rows == [i \in 1..n |-> Row(items[i], i - 1)]
           shown == [st EXCEPT !.view.rows = rows, !.view.emptyHidden = TRUE,
                               !.view.totalHidden = FALSE]
       IN IF n < Len(items) THEN Raise(shown)
          ELSE [shown EXCEPT !.view.total = toFixed(getTotal(st.cart))]

openCart(st) ==
  LET rendered == renderCartModal(st)
  IN IF rendered.raised THEN rendered ELSE [rendered EXCEPT !.modalOpen = TRUE]

closeCart(st) == IF st.raised THEN st ELSE [st EXCEPT !.modalOpen = FALSE]


\* checkout that clears the cart before it reads the total
checkoutClearsFirst(st, wok) ==
  IF getItemCountRaises(st.cart) THEN Raise(st)
  ELSE IF getItemCount(st.cart) = Num(0)
  THEN [st EXCEPT !.alertMsg = [kind |-> "empty", total |-> Str("")]]
  ELSE IF getTotalRaises(st.cart) THEN Raise(st)
  ELSE LET cleared == clearCart(st, wok)
       IN closeCart([cleared EXCEPT !.alertMsg =
                       [kind |-> "thanks", total |-> toFixed(getTotal(cleared.cart))]])

checkout(st, wok) ==
  IF getItemCountRaises(st.cart) THEN Raise(st)
  ELSE IF getItemCount(st.cart) = Num(0)
  THEN [st EXCEPT !.alertMsg = [kind |-> "empty", total |-> Str("")]]
  ELSE IF getTotalRaises(st.cart) THEN Raise(st)
  ELSE LET thanked == [st EXCEPT !.alertMsg = [kind |-> "thanks",
                                               total |-> toFixed(getTotal(st.cart))]]
       IN closeCart(clearCart(thanked, wok))

\* new ShoppingCart() on a freshly loaded page
Markup(text) ==
  [cart |-> EmptyCart, store |-> text, badge |-> MarkupBadge, modalOpen |-> FALSE,
   view |-> MarkupView, notes |-> << >>, noteEl |-> [id \in NoteIds |-> NoNote],
   alertMsg |-> NoAlert, raised |-> FALSE]

constructor(text, rok) ==
  LET got == loadCart(text, rok)
  IN IF got.raised THEN Raise(Markup(text))
     ELSE updateCartDisplay([Markup(text) EXCEPT !.cart = got.value])

----------------------------------------------------------------------------------------------------------------------------------------
\* class DataLoader.  A loaded document is [k, doc]: its kind and the file it
\* was parsed from ("" for the documents the code makes up itself).

Doc(k, doc) == [k |-> k, doc |-> doc]
NullDoc == Doc("null", "")
EmptyMapping == Doc("mapping", "")
EmptySequence == Doc("seq", "")
NoReturn == Doc("pending", "")

\* what `!this.content` tests: {} and [] are truthy
Truthy(d) == d.k # "null"

\* how a fetch can end: the request is rejected, the response is not OK,
\* the body is not JSON, the body is the expected JSON document, the body
\* is the JSON text null
FailedOutcomes == {"rejected", "notOk", "notJson"}
Outcomes == FailedOutcomes \cup {"json", "jsonNull"}

Body(filename, outcome) ==
  IF outcome = "jsonNull" THEN NullDoc
  ELSE IF filename = "content.json" THEN Doc("mapping", filename)
  ELSE Doc("seq", filename)

\* loadJSON whose catch returns [] whatever the file
loadJSONAlwaysSequence(filename, outcome) ==
  [raised |-> FALSE,
   value |-> IF outcome \in FailedOutcomes THEN EmptySequence
             ELSE Body(filename, outcome)]

loadJSON(filename, outcome) ==
  [raised |-> FALSE,
   value |-> IF outcome \in FailedOutcomes
             THEN (IF filename = "content.json" THEN EmptyMapping ELSE EmptySequence)
             ELSE Body(filename, outcome)]

\* The content documents as trees: a mapping from keys to trees, or a value.
Map(m) == [t |-> "map", m |-> m, v |-> Undefined]
Leaf(v) == [t |-> "leaf", m |-> << >>, v |-> v]

ContentTree ==
  Map([site |-> Map([name |-> Leaf(Str("PZ Emporium")),
                     url |-> Leaf(Str("https://example.org")),
                     logo |-> Leaf(Null),
                     motto |-> Leaf(Str(""))]),
       cart |-> Map([addButton |-> Leaf(Str("Add to Cart"))])])

Tree(d) ==
  IF d = Doc("mapping", "content.json") THEN ContentTree
  ELSE IF d.k = "null" THEN Leaf(Null)
  ELSE Map(<< >>)

\* current?.[key]
Member(current, key) ==
  IF current.t = "map" /\ key \in DOMAIN current.m THEN current.m[key]
  ELSE Leaf(Undefined)

RECURSIVE Walk(_, _)
Walk(current, keys) ==
  IF keys = << >> THEN current ELSE Walk(Member(current, Head(keys)), Tail(keys))

\* a mapping reached by the path is written as the text [object Object]
getNestedValue(obj, path) ==
  LET found == Walk(Tree(obj), path)
  IN IF found.t = "leaf" THEN found.v ELSE Str("[object Object]")

\* the elements that carry data-content: the path (split at the dots) and
\* data-content-attr (Null when the element has none)
Tagged ==
  [title   |-> [path |-> <<"site", "name">>, attr |-> Null],
   tagline |-> [path |-> <<"site", "tagline", "short">>, attr |-> Str("text")],
   button  |-> [path |-> <<"cart", "addButton">>, attr |-> Str("html")],
   link    |-> [path |-> <<"site", "url">>, attr |-> Str("href")],
   logo    |-> [path |-> <<"site", "logo">>, attr |-> Str("src")],
   motto   |-> [path |-> <<"site", "motto">>, attr |-> Str("")]]

\* an element as the markup has it.  body is what the element contains and
\* how it got there: "markup" as authored, "text" set through textContent,
\* "html" set through innerHTML; attribute is the value of the attribute
\* that data-content-attr names, Null while the element does not carry it
MarkupElement ==
  [body |-> [how |-> "markup", v |-> Str("...")], attribute |-> Null]

\* the body of forEach without its test for undefined and null
applyElementNoGuard(el, tag, value) ==
  IF Falsy(tag.attr) \/ tag.attr = Str("text")
  THEN [el EXCEPT !.body = [how |-> "text", v |-> toText(value)]]
  ELSE IF tag.attr = Str("html")
  THEN [el EXCEPT !.body = [how |-> "html", v |-> toText(value)]]
  ELSE [el EXCEPT !.attribute = toText(value)]

applyElement(el, tag, value) ==
  IF value.k \in {"undefined", "null"} THEN el
  ELSE IF Falsy(tag.attr) \/ tag.attr = Str("text")
  THEN [el EXCEPT !.body = [how |-> "text", v |-> toText(value)]]
  ELSE IF tag.attr = Str("html")
  THEN [el EXCEPT !.body = [how |-> "html", v |-> toText(value)]]
  ELSE [el EXCEPT !.attribute = toText(value)]

\* The state of the loader a call works on.
Ld ==
  [content |-> content, siteContent |-> siteContent, fetched |-> fetched,
   page |-> page, hpc |-> hpc, opc |-> opc, ret |-> ret, lastLoad |-> lastLoad,
   elems |-> elems, container |-> container]

OtherCallers == 1..MaxOther
HandlerCallers == {"applyContent", "renderTips"}
NoLoad == [file |-> "", outcome |-> "", raised |-> FALSE, value |-> NullDoc]
Pages == {"index", "mods", "tools", "shop", "about"}

\* loadContent() up to its await: a fetch is issued when nothing is cached,
\* else the call returns the cached document.  who is <<"h", name>> for a
\* call of the handler and <<"o", c>> for another caller.
loadContentCached(ld) == Truthy(ld.content)

loadContentCall(ld, who) ==
  IF loadContentCached(ld)
  THEN [ld EXCEPT !.siteContent = ld.content, !.ret[who[1]][who[2]] = ld.content]
  ELSE [ld EXCEPT !.fetched = @ + 1]

\* loadContent() from the moment its fetch has ended
loadContentResume(ld, who, outcome) ==
  LET got == loadJSON("content.json", outcome)
  IN [ld EXCEPT !.content = got.value, !.siteContent = got.value,
                !.ret[who[1]][who[2]] = got.value,
                !.lastLoad = [file |-> "content.json", outcome |-> outcome,
                              raised |-> got.raised, value |-> got.value]]

\* applyContent() once loadContent() has returned
applyContent(ld) ==
  LET doc == ld.ret["h"]["applyContent"]
  IN [ld EXCEPT !.elems =
        [e \in DOMAIN Tagged |->
           applyElement(ld.elems[e], Tagged[e], getNestedValue(doc, Tagged[e].path))]]

\* the file a page's container is rendered from; "" on a page without one
ContainerFile(p) ==
  CASE p = "mods" -> "mods.json"
    [] p = "tools" -> "tools.json"
    [] p = "shop" -> "tips.json"
    [] OTHER -> ""

\* renderMods, renderTools and renderTips up to their first fetch
startRenders(ld) ==
  IF ContainerFile(ld.page) = "" THEN [ld EXCEPT !.hpc = "done"]
  ELSE IF ld.page # "shop" THEN [ld EXCEPT !.hpc = "list.fetch"]
  ELSE LET called == loadContentCall(ld, <<"h", "renderTips">>)
       IN IF loadContentCached(ld) THEN [called EXCEPT !.hpc = "list.fetch"]
          ELSE [called EXCEPT !.hpc = "tips.content.fetch"]

\* loadMods, loadTools or loadTips has returned: the container is rendered
renderList(ld, outcome) ==
  LET file == ContainerFile(ld.page)
      got == loadJSON(file, outcome)
      loadedNow == [ld EXCEPT !.lastLoad = [file |-> file, outcome |-> outcome,
                                            raised |-> got.raised, value |-> got.value]]
      \* content.cart of renderTips, and list.map
      raises == \/ got.value.k # "seq"
                \/ ld.page = "shop" /\ ld.ret["h"]["renderTips"].k = "null"
  IN IF raises THEN [loadedNow EXCEPT !.hpc = "failed"]
     ELSE [loadedNow EXCEPT !.container = got.value, !.hpc = "done"]

LoaderInit ==
  /\ content = NullDoc
  /\ siteContent = NullDoc
  /\ fetched = 0
  /\ page = "none"
  /\ hpc = "unloaded"
  /\ opc = [c \in OtherCallers |-> "idle"]
  /\ ret = [h |-> [c \in HandlerCallers |-> NoReturn],
            o |-> [c \in OtherCallers |-> NoReturn]]
  /\ lastLoad = NoLoad
  /\ elems = [e \in DOMAIN Tagged |-> MarkupElement]
  /\ container = NoReturn

LdBecomes(ld) ==
  /\ content' = ld.content
  /\ siteContent' = ld.siteContent
  /\ fetched' = ld.fetched
  /\ page' = ld.page
  /\ hpc' = ld.hpc
  /\ opc' = ld.opc
  /\ ret' = ld.ret
  /\ lastLoad' = ld.lastLoad
  /\ elems' = ld.elems
  /\ container' = ld.container

\* DOMContentLoaded on page p: applyContent() runs to the await of its fetch,
\* or, with the content cached, to the first fetch of the render functions
DOMContentLoaded ==
  \E p \in Pages :
    /\ hpc = "unloaded"
    /\ LET onPage == [Ld EXCEPT !.page = p]
           called == loadContentCall(onPage, <<"h", "applyContent">>)
       IN IF loadContentCached(onPage)
          THEN LdBecomes(startRenders(applyContent(called)))
          ELSE LdBecomes([called EXCEPT !.hpc = "content.fetch"])
    /\ UNCHANGED cartVars

\* the fetch of applyContent's loadContent() has ended
ContentFetched ==
  \E outcome \in Outcomes :
    /\ hpc = "content.fetch"
    /\ LdBecomes(startRenders(applyContent(
         loadContentResume(Ld, <<"h", "applyContent">>, outcome))))
    /\ UNCHANGED cartVars

\* the fetch of renderTips' loadContent() has ended: loadTips() is next
TipsContentFetched ==
  \E outcome \in Outcomes :
    /\ hpc = "tips.content.fetch"
    /\ LdBecomes([loadContentResume(Ld, <<"h", "renderTips">>, outcome)
                    EXCEPT !.hpc = "list.fetch"])
    /\ UNCHANGED cartVars

\* the fetch of loadMods, loadTools or loadTips has ended
ListFetched ==
  \E outcome \in Outcomes :
    /\ hpc = "list.fetch"
    /\ LdBecomes(renderList(Ld, outcome))
    /\ UNCHANGED cartVars

\* another script calls window.dataLoader.loadContent()
OtherCall ==
  \E c \in OtherCallers :
    /\ opc[c] = "idle"
    /\ LET called == loadContentCall(Ld, <<"o", c>>)
       IN LdBecomes([called EXCEPT !.opc[c] =
                       IF loadContentCached(Ld) THEN "done" ELSE "fetching"])
    /\ UNCHANGED cartVars

\* the fetch of that call has ended
OtherFetched ==
  \E c \in OtherCallers, outcome \in Outcomes :
    /\ opc[c] = "fetching"
    /\ LdBecomes([loadContentResume(Ld, <<"o", c>>, outcome) EXCEPT !.opc[c] = "done"])
    /\ UNCHANGED cartVars

----------------
\* The user's and the browser's steps on the cart.  The steps that take
\* arguments are given the sets the arguments are drawn from: the items that
\* can be added, the outcomes of localStorage.setItem (TRUE: it returns,
\* FALSE: it throws), and whether the user is about to act (ready).

\* n: the items in the cart when the operation began
Op(op, idx, raised, io) ==
  [op |-> op, idx |-> idx, n |-> Len(cart.items), raised |-> raised, io |-> io]

\* the page after a handler ran to st
Becomes(st) ==
  /\ cart' = st.cart
  /\ store' = st.store
  /\ badge' = st.badge
  /\ modalOpen' = st.modalOpen
  /\ view' = st.view
  /\ notes' = st.notes
  /\ noteEl' = st.noteEl
  /\ alertMsg' = st.alertMsg

\* a handler that uses the binding `cart` of a page whose constructor threw
ReferenceError(op, idx) ==
  /\ ~loaded
  /\ last' = Op(op, idx, TRUE, TRUE)
  /\ UNCHANGED <<cart, loaded, store, badge, modalOpen, view, notes, noteEl,
                 alertMsg, now, startedEmpty, net>>

\* addToCart(name, price, description) as the rendered buttons call it
AddToCartArgs ==
  { <<Str("Skill Recovery"), Num(499), Str("x")>>,
    <<Str("Mystery"), Undefined, Str("x")>> }

\* items passed to cart.addItem directly
AddItemArgs ==
  { [id |-> Str("sku-1"), name |-> Str("Refund"), price |-> Str("-1.00"),
     description |-> Undefined, type |-> Str("service")] }

\* one item, for the runs that are about something else than the items
OneItem == { <<Str("Skill Recovery"), Num(499), Str("x")>> }

CanNotify == FreeNotes(Cur) # {}

\* no notification is showing and no timer is pending
Quiet == notes = << >> /\ \A id \in NoteIds : noteEl[id].timer = "none"

\* the clock may have advanced since the last reading of Date.now()
Added(item, wok) ==
  \/ ReferenceError("add", 0)
  \/ /\ loaded
     /\ CanNotify
     /\ Len(cart.items) < MaxItems
     /\ \E t \in { u \in {now, now + 1} : u <= MaxNow } :
          LET st == addItem(Cur, item, t, wok) IN
            /\ Becomes(st)
            /\ last' = Op("add", 0, st.raised, wok)
            /\ net' = IF startedEmpty /\ ~st.raised THEN net + 1 ELSE net
            /\ now' = t
     /\ UNCHANGED <<loaded, startedEmpty>>

AddItem(items, writes, ready) ==
  \E item \in items, wok \in writes :
    /\ ready
    /\ Added(item, wok)
    /\ UNCHANGED <<tab, loaderVars>>

AddToCart(args, writes, ready) ==
  \E a \in args, wok \in writes :
    /\ ready
    /\ Added([id |-> Undefined, name |-> a[1], price |-> a[2],
              description |-> a[3], type |-> Undefined], wok)
    /\ UNCHANGED <<tab, loaderVars>>

RemoveItem(writes, ready) ==
  \E index \in -1..MaxItems, wok \in writes :
    /\ ready
    /\ \/ ReferenceError("remove", index)
       \/ /\ loaded
          /\ CanNotify
          /\ LET st == removeItem(Cur, index, wok) IN
               /\ Becomes(st)
               /\ last' = Op("remove", index, st.raised, wok)
          /\ net' = IF startedEmpty /\ InRange(cart, index) THEN net - 1 ELSE net
          /\ UNCHANGED <<loaded, now, startedEmpty>>
    /\ UNCHANGED <<tab, loaderVars>>

ClearCart(writes, ready) ==
  \E wok \in writes :
    /\ ready
    /\ \/ ReferenceError("clear", 0)
       \/ /\ loaded
          /\ CanNotify
          /\ LET st == clearCart(Cur, wok) IN
               /\ Becomes(st)
               /\ last' = Op("clear", 0, st.raised, wok)
          /\ net' = IF startedEmpty THEN net - Len(cart.items) ELSE net
          /\ UNCHANGED <<loaded, now, startedEmpty>>
    /\ UNCHANGED <<tab, loaderVars>>

OpenCart(ready) ==
  /\ ready
  /\ \/ ReferenceError("open", 0)
     \/ /\ loaded
        /\ LET st == openCart(Cur) IN
             /\ Becomes(st)
             /\ last' = Op("open", 0, st.raised, TRUE)
        /\ UNCHANGED <<loaded, now, startedEmpty, net>>
  /\ UNCHANGED <<tab, loaderVars>>

\* the close button, or a click on the modal's backdrop
CloseCart(ready) ==
  /\ ready
  /\ LET st == closeCart(Cur) IN
       /\ Becomes(st)
       /\ last' = Op("close", 0, st.raised, TRUE)
  /\ UNCHANGED <<loaded, now, startedEmpty, net>>
  /\ UNCHANGED <<tab, loaderVars>>

Checkout(writes, ready) ==
  \E wok \in writes :
    /\ ready
    /\ \/ ReferenceError("checkout", 0)
       \/ /\ loaded
          /\ CanNotify
          /\ LET st == checkout(Cur, wok) IN
               /\ Becomes(st)
               /\ last' = Op("checkout", 0, st.raised, wok)
               /\ net' = IF startedEmpty /\ ~st.raised THEN net - Len(cart.items)
                         ELSE net
          /\ UNCHANGED <<loaded, now, startedEmpty>>
    /\ UNCHANGED <<tab, loaderVars>>

\* the 3000 ms timer of notification id
FadeTimer ==
  \E id \in NoteIds :
    /\ noteEl[id].timer = "t3000"
    /\ noteEl' = [noteEl EXCEPT ![id].anim = "fadeOut", ![id].timer = "t300"]
    /\ last' = Op("fade", id, FALSE, TRUE)
    /\ UNCHANGED <<cart, loaded, store, badge, modalOpen, view, notes, alertMsg,
                   now, startedEmpty, net>>
    /\ UNCHANGED <<tab, loaderVars>>

\* the 300 ms timer of notification id: notification.remove()
RemoveTimer ==
  \E id \in NoteIds :
    /\ noteEl[id].timer = "t300"
    /\ notes' = Detach(notes, id)
    /\ noteEl' = [noteEl EXCEPT ![id] = NoNote]
    /\ last' = Op("dismiss", id, FALSE, TRUE)
    /\ UNCHANGED <<cart, loaded, store, badge, modalOpen, view, alertMsg,
                   now, startedEmpty, net>>
    /\ UNCHANGED <<tab, loaderVars>>

\* the state of a page whose script has just run against the stored text
Constructed(st, rok) ==
  /\ Becomes(st)
  /\ loaded' = ~st.raised
  /\ last' = [Op("construct", 0, st.raised, rok) EXCEPT !.n = 0]
  /\ net' = 0
  /\ startedEmpty' = (st.cart = EmptyCart)

\* the page is loaded again: its timers and its in-memory cart are gone
Reload ==
  \E rok \in BOOLEAN :
    /\ Constructed(constructor(store, rok), rok)
    /\ UNCHANGED now
    /\ UNCHANGED <<tab, loaderVars>>

CartInit ==
  \E text \in {NoEntry} \cup ForeignTexts, rok \in BOOLEAN :
    LET st == constructor(text, rok) IN
      /\ cart = st.cart
      /\ store = st.store
      /\ badge = st.badge
      /\ modalOpen = st.modalOpen
      /\ view = st.view
      /\ notes = st.notes
      /\ noteEl = st.noteEl
      /\ alertMsg = st.alertMsg
      /\ loaded = ~st.raised
      /\ last = [op |-> "construct", idx |-> 0, n |-> 0, raised |-> st.raised,
                 io |-> rok]
      /\ net = 0
      /\ startedEmpty = (st.cart = EmptyCart)
      /\ now = 0
      /\ tab = [open |-> FALSE, cart |-> EmptyCart]

\* The same script in a second tab: it has its own in-memory list and shares
\* the localStorage entry.  Only its list and its writes are kept.

\* addToCart(name, price, description) as the buttons of the second tab call it
TabArgs == { <<Str("Tip"), Str("2.50"), Str("y")>> }

\* the page of the second tab
TabPage == [Markup(store) EXCEPT !.cart = tab.cart]

\* what a handler of the second tab leaves of the primary page's variables
TabBecomes(st, op, idx) ==
  /\ tab' = [open |-> tab.open, cart |-> st.cart]
  /\ store' = st.store
  /\ last' = [op |-> op, idx |-> idx, n |-> Len(tab.cart.items),
              raised |-> st.raised, io |-> TRUE]
  /\ UNCHANGED <<cart, loaded, badge, modalOpen, view, notes, noteEl, alertMsg,
                 now, startedEmpty, net>>
  /\ UNCHANGED loaderVars

\* the second tab loads a page of the site: new ShoppingCart()
TabOpen ==
  /\ ~tab.open
  /\ LET st == constructor(store, TRUE) IN
       /\ tab' = [open |-> ~st.raised, cart |-> st.cart]
       /\ last' = [op |-> "tab.open", idx |-> 0, n |-> 0, raised |-> st.raised,
                   io |-> TRUE]
  /\ UNCHANGED <<cart, loaded, store, badge, modalOpen, view, notes, noteEl,
                 alertMsg, now, startedEmpty, net>>
  /\ UNCHANGED loaderVars

TabAdd ==
  \E a \in TabArgs :
    /\ tab.open
    /\ Len(tab.cart.items) < MaxItems
    /\ TabBecomes(addItem(TabPage, [id |-> Undefined, name |-> a[1], price |-> a[2],
                                    description |-> a[3], type |-> Undefined],
                          now, TRUE),
                  "tab.add", 0)

TabRemove ==
  \E index \in -1..MaxItems :
    /\ tab.open
    /\ TabBecomes(removeItem(TabPage, index, TRUE), "tab.remove", index)

TabClear ==
  /\ tab.open
  /\ TabBecomes(clearCart(TabPage, TRUE), "tab.clear", 0)

Init == CartInit /\ LoaderInit

----------------------------------------------------------------------------
\* Spec: the cart and its store.  Every item, storage that may refuse a
\* write, page reloads; the user acts once the last notification is gone
\* and does not open the cart view.

Next ==
  \/ AddItem(AddItemArgs, BOOLEAN, Quiet)
  \/ AddToCart(AddToCartArgs, BOOLEAN, Quiet)
  \/ RemoveItem(BOOLEAN, Quiet)
  \/ ClearCart(BOOLEAN, Quiet)
  \/ Checkout(BOOLEAN, Quiet)
  \/ FadeTimer
  \/ RemoveTimer
  \/ Reload

Spec == Init /\ [][Next]_vars

\* ViewSpec: the cart view.  The user opens and closes the cart view
\* between the other steps and adds items while it is closed (the add
\* buttons lie under the open view's backdrop); the store may refuse the
\* writes that empty the cart; the page is not reloaded.

ViewNext ==
  \/ AddToCart(AddToCartArgs, {TRUE}, Quiet /\ ~modalOpen)
  \/ RemoveItem({TRUE}, Quiet)
  \/ ClearCart(BOOLEAN, Quiet)
  \/ Checkout(BOOLEAN, Quiet)
  \/ OpenCart(Quiet)
  \/ CloseCart(Quiet)
  \/ FadeTimer
  \/ RemoveTimer

ViewSpec == Init /\ [][ViewNext]_vars

\* NoteSpec: the notification.  The user acts at any moment, also while
\* notifications show and timers are pending; one item, writes succeed.

NoteNext ==
  \/ AddToCart(OneItem, {TRUE}, TRUE)
  \/ RemoveItem({TRUE}, TRUE)
  \/ ClearCart({TRUE}, TRUE)
  \/ Checkout({TRUE}, TRUE)
  \/ FadeTimer
  \/ RemoveTimer
  \/ Reload

NoteSpec == Init /\ [][NoteNext]_vars

\* NoteLiveSpec: NoteSpec with timers that fire: a timer set with setTimeout
\* runs once its delay has passed, as long as the page is not left.

NoteLiveSpec ==
  /\ NoteSpec
  /\ WF_vars(FadeTimer)
  /\ WF_vars(RemoveTimer)

\* FaultSpec: storage that may refuse any write.  The user acts once the
\* last notification is gone, or clicks Clear again right after a Clear; one
\* item, no reloads.

FaultNext ==
  \/ AddToCart(OneItem, BOOLEAN, Quiet)
  \/ RemoveItem(BOOLEAN, Quiet)
  \/ ClearCart(BOOLEAN, Quiet \/ last.op = "clear")
  \/ FadeTimer
  \/ RemoveTimer

FaultSpec == Init /\ [][FaultNext]_vars

\* TabSpec: two tabs on the same origin.  Every write succeeds, no reloads,
\* the user of the first tab acts once its last notification is gone; a
\* second tab may load the site at any moment and is used like the first.

TabNext ==
  \/ AddToCart(OneItem, {TRUE}, Quiet)
  \/ RemoveItem({TRUE}, Quiet)
  \/ ClearCart({TRUE}, Quiet)
  \/ FadeTimer
  \/ RemoveTimer
  \/ TabOpen
  \/ TabAdd
  \/ TabRemove
  \/ TabClear

TabSpec == Init /\ [][TabNext]_vars

\* LoaderSpec: one page load of the data loader.

LoaderNext ==
  \/ DOMContentLoaded
  \/ ContentFetched
  \/ TipsContentFetched
  \/ ListFetched
  \/ OtherCall
  \/ OtherFetched

LoaderSpec == Init /\ [][LoaderNext]_vars

----------------------------------------------------------------------------
\* The claims about the cart.

RECURSIVE SumCents(_)
SumCents(items) ==
  IF items = << >> THEN 0
  ELSE SumCents(SubSeq(items, 1, Len(items) - 1)) + items[Len(items)].price.n

\* the sum of the prices of a list: not a number as soon as one price is not
SumOfPrices(items) ==
  IF \E i \in 1..Len(items) : items[i].price.k # "number" THEN NaN
  ELSE Num(SumCents(items))

\* s without its entry at position p (counted from 1)
DeleteAt(s, p) == [j \in 1..(Len(s) - 1) |-> IF j < p THEN s[j] ELSE s[j + 1]]

\* the last operation was a removeItem whose index was in range
RemovedInRange == last.op = "remove" /\ last.idx >= 0 /\ last.idx < last.n

\* C1: on a cart that started empty, getItemCount() is the number of adds
\* minus the items taken out by in-range removes and by clears, and
\* getTotal() is the sum of the prices of the items in the cart.
C1_CountAndTotal ==
  (loaded /\ startedEmpty) =>
    /\ getItemCount(cart) = Num(net)
    /\ getTotal(cart) = SumOfPrices(cart.items)

C1_Witness ==
  /\ loaded /\ startedEmpty /\ ~last.raised
  /\ last.op = "remove" /\ last.idx = 0 /\ last.n = 2
  /\ net = 1
  /\ getTotal(cart).k = "number"

\* C2: after every addItem, in-range removeItem and clearCart whose storage
\* write succeeded, the stored text loads back to exactly the in-memory list.
C2_RoundTrip ==
  (/\ loaded /\ ~last.raised /\ last.io
   /\ (last.op \in {"add", "clear"} \/ RemovedInRange))
  => loadCart(store, TRUE).value = cart

\* C3: removeItem with index < 0 or index >= getItemCount() changes neither
\* the list, the stored text, the badge nor the notification, and raises
\* nothing.
C3_OutOfRangeRemove ==
  [][(loaded /\ last'.op = "remove" /\ (last'.idx < 0 \/ last'.idx >= last'.n))
     => (/\ cart' = cart /\ store' = store /\ badge' = badge
         /\ notes' = notes /\ noteEl' = noteEl
         /\ ~last'.raised)]_vars

C3_Witness ==
  /\ loaded /\ last.op = "remove" /\ (last.idx < 0 \/ last.idx >= last.n)
  /\ last.n > 0
  /\ notes # << >>

\* C4 as claimed: checkout() on an empty cart shows the empty-cart message
\* and leaves list, store and cart view alone; on a non-empty cart it reports
\* the total of the items present before clearing, and afterwards the cart
\* is empty, the store holds the empty list and the cart view is closed.
C4_CheckoutStoreEmptied ==
  [][(loaded /\ cart.k = "array" /\ last'.op = "checkout")
     => IF cart.items = << >>
        THEN /\ alertMsg'.kind = "empty"
             /\ cart' = cart /\ store' = store /\ modalOpen' = modalOpen
        ELSE /\ alertMsg' = [kind |-> "thanks", total |-> toFixed(SumOfPrices(cart.items))]
             /\ cart' = EmptyCart
             /\ store' = stringify(EmptyCart)
             /\ ~modalOpen']_vars

\* C4 as amended: the same, but the store holds the empty list when the
\* storage write succeeded and keeps its previous text when it threw.
C4_Checkout ==
  [][(loaded /\ cart.k = "array" /\ last'.op = "checkout")
     => IF cart.items = << >>
        THEN /\ alertMsg'.kind = "empty"
             /\ cart' = cart /\ store' = store /\ modalOpen' = modalOpen
        ELSE /\ alertMsg' = [kind |-> "thanks", total |-> toFixed(SumOfPrices(cart.items))]
             /\ cart' = EmptyCart
             /\ store' = (IF last'.io THEN stringify(EmptyCart) ELSE store)
             /\ ~modalOpen']_vars

C4_Witness ==
  /\ loaded /\ last.op = "checkout" /\ last.n = 2 /\ ~last.raised
  /\ ~last.io
  /\ alertMsg.kind = "thanks"
  /\ cart = EmptyCart /\ store.items # << >> /\ ~modalOpen

\* C5: while the cart view is open, after every addItem, removeItem and
\* clearCart the list view shows the current list: one row per item in list
\* order, each Remove button carrying its item's position, and the total.
C5_ViewFollowsCart ==
  (/\ loaded /\ modalOpen /\ ~last.raised
   /\ last.op \in {"add", "remove", "clear"})
  => /\ Len(view.rows) = Len(cart.items)
     /\ \A i \in 1..Len(cart.items) : view.rows[i] = Row(cart.items[i], i - 1)
     /\ (cart.items # << >> => view.total = toFixed(getTotal(cart)))

\* the last operation showed a notification
Notified ==
  /\ loaded /\ ~last.raised
  /\ \/ last.op \in {"add", "clear"}
     \/ RemovedInRange
     \/ last.op = "checkout" /\ last.n > 0

NotifiedKind ==
  CASE last.op = "add" -> "added"
    [] last.op = "remove" -> "removed"
    [] OTHER -> "cleared"

\* C6: at most one notification element is in the page, and right after a
\* showNotification call it is the one that call created.
C6_OneNotification ==
  /\ Len(notes) <= 1
  /\ Notified =>
       /\ notes # << >>
       /\ noteEl[notes[Len(notes)]].msg.kind = NotifiedKind
       /\ noteEl[notes[Len(notes)]].anim = "slideInRight"
       /\ noteEl[notes[Len(notes)]].timer = "t3000"

\* a notification replaced another whose remove timer is still pending
C6_Witness ==
  /\ Notified /\ last.op = "add"
  /\ Len(notes) = 1
  /\ \E id \in NoteIds : id # notes[1] /\ noteEl[id].timer = "t300"

\* C9: removeItem with an index in range deletes exactly the entry at that
\* position, the others keeping their order, and the notification names the
\* removed entry.
C9_RemoveInRange ==
  [][(loaded /\ last'.op = "remove" /\ last'.idx >= 0 /\ last'.idx < last'.n)
     => (/\ ~last'.raised
         /\ cart'.items = DeleteAt(cart.items, last'.idx + 1)
         /\ notes' # << >>
         /\ noteEl'[notes'[Len(notes')]].msg =
              Msg("removed", toText(cart.items[last'.idx + 1].name)))]_vars

\* with two items, removeItem(0) left the second one
C9_Witness ==
  /\ loaded /\ ~last.raised
  /\ last.op = "remove" /\ last.idx = 0 /\ last.n = 2
  /\ Len(cart.items) = 1
  /\ cart.items[1].name = Str("Refund")

\* C10: constructing the cart on an absent, unreadable or unparseable entry
\* gives the empty list and raises nothing.
C10_ConstructOnBadStore ==
  (last.op = "construct" /\ (~last.io \/ store.k \in {"absent", "empty", "malformed"}))
  => (loaded /\ ~last.raised /\ cart = EmptyCart)

\* a reload on which reading the key threw although a cart was stored
C10_Witness ==
  /\ last.op = "construct" /\ ~last.io
  /\ store.k = "array" /\ store.items # << >>
  /\ loaded /\ cart = EmptyCart

\* C11: every item in the cart whose price is a number has a price >= 0,
\* whatever numeric or numeric-string price addItem or addToCart was given.
C11_PriceNonNegative ==
  (loaded /\ cart.k = "array") =>
    \A i \in 1..Len(cart.items) :
      cart.items[i].price.k = "number" => cart.items[i].price.n >= 0

\* the notification in the page is the one clearCart shows
ClearedShown(ns, els) ==
  /\ Len(ns) = 1
  /\ els[ns[1]].msg = Msg("cleared", Str(""))

\* C12 as claimed: a clearCart that follows a clearCart leaves what the first
\* one left (empty list, store holding the empty list, badge hidden, one
\* 'Cart cleared' notification), and neither raises.
C12_ClearTwiceStoreEmptied ==
  [][(loaded /\ last.op = "clear" /\ last'.op = "clear")
     => (/\ ~last.raised /\ ~last'.raised
         /\ cart = EmptyCart /\ cart' = cart
         /\ badge.hidden /\ badge' = badge
         /\ ClearedShown(notes, noteEl) /\ ClearedShown(notes', noteEl')
         /\ store = stringify(EmptyCart) /\ store' = store)]_vars

\* C12 as amended: the same for the list, the badge and the notification;
\* the store holds the empty list as soon as one of the two writes succeeded
\* and keeps its previous text while they throw.
C12_ClearTwice ==
  [][(loaded /\ last.op = "clear" /\ last'.op = "clear")
     => (/\ ~last.raised /\ ~last'.raised
         /\ cart = EmptyCart /\ cart' = cart
         /\ badge.hidden /\ badge' = badge
         /\ ClearedShown(notes, noteEl) /\ ClearedShown(notes', noteEl')
         /\ (last.io => store = stringify(EmptyCart))
         /\ store' = (IF last'.io THEN stringify(EmptyCart) ELSE store))]_vars

\* a second clearCart in a row, both writes refused, over a stored cart: the
\* first call's notification is detached with its timer still pending
C12_Witness ==
  /\ loaded /\ last.op = "clear" /\ last.n = 0 /\ ~last.raised /\ ~last.io
  /\ cart = EmptyCart /\ badge.hidden /\ store.items # << >>
  /\ ClearedShown(notes, noteEl)
  /\ \E id \in NoteIds :
       /\ id # notes[1]
       /\ noteEl[id] = [msg |-> Msg("cleared", Str("")), anim |-> "slideInRight",
                        timer |-> "t3000"]

\* the list a tab's operation worked on, before and after it
Acting(mine, theirs, op) == IF op \in {"add", "remove", "clear"} THEN mine ELSE theirs

\* C13: every add, remove and clear of a cart instance that shares the
\* storage key changes the stored list by exactly that mutation, so that the
\* store holds the result of all the mutations in the order of their events.
C13_StoreFollowsEvents ==
  [][(/\ last'.op \in {"add", "remove", "clear", "tab.add", "tab.remove", "tab.clear"}
      /\ ~last'.raised /\ last'.io
      /\ (last'.op \in {"add", "remove", "clear"} => loaded))
     => LET after == Acting(cart', tab'.cart, last'.op).items
        IN CASE last'.op \in {"add", "tab.add"} ->
                  store'.items = Append(store.items, stringifyItem(after[Len(after)]))
             [] last'.op \in {"remove", "tab.remove"} ->
                  store'.items =
                    (IF last'.idx >= 0 /\ last'.idx < last'.n
                     THEN DeleteAt(store.items, last'.idx + 1)
                     ELSE store.items)
             [] OTHER -> store'.items = << >>]_vars

\* C14: when localStorage.setItem throws during addItem, an in-range
\* removeItem or clearCart, the call raises nothing, the in-memory list has
\* the mutation, the badge shows the new count, the notification is shown,
\* and the stored text is the one from before.
C14_WriteFailureOnlyLogged ==
  [][(/\ loaded /\ ~last'.io
      /\ \/ last'.op = "add" /\ cart.k = "array"
         \/ last'.op = "remove" /\ cart.k = "array"
              /\ last'.idx >= 0 /\ last'.idx < last'.n
         \/ last'.op = "clear")
     => (/\ ~last'.raised
         /\ store' = store
         /\ cart'.k = "array"
         /\ CASE last'.op = "add" ->
                   /\ Len(cart'.items) = Len(cart.items) + 1
                   /\ SubSeq(cart'.items, 1, Len(cart.items)) = cart.items
                   /\ noteEl'[notes'[Len(notes')]].msg =
                        Msg("added", toText(cart'.items[Len(cart'.items)].name))
              [] last'.op = "remove" ->
                   /\ cart'.items = DeleteAt(cart.items, last'.idx + 1)
                   /\ noteEl'[notes'[Len(notes')]].msg.kind = "removed"
              [] OTHER ->
                   /\ cart'.items = << >>
                   /\ noteEl'[notes'[Len(notes')]].msg.kind = "cleared"
         /\ badge'.hidden = (Len(cart'.items) = 0)
         /\ (~badge'.hidden => badge'.text = Num(Len(cart'.items)))
         /\ noteEl'[notes'[Len(notes')]].timer = "t3000")]_vars

\* removeItem(0) on two items whose write was refused: the list has one
\* item, the store still the two
C14_Witness ==
  /\ loaded /\ ~last.raised /\ ~last.io
  /\ last.op = "remove" /\ last.idx = 0 /\ last.n = 2
  /\ Len(cart.items) = 1 /\ Len(store.items) = 2
  /\ badge = [hidden |-> FALSE, text |-> Num(1)]
  /\ notes # << >>

\* C15: once the cart is constructed, and after every addItem, removeItem
\* and clearCart, the badge is hidden exactly when getItemCount() is 0, and
\* a visible badge shows getItemCount().
C15_BadgeShowsCount ==
  (loaded /\ cart.k = "array") =>
    /\ badge.hidden = (getItemCount(cart) = Num(0))
    /\ (~badge.hidden => badge.text = getItemCount(cart))

\* the badge went from 2 to hidden by a clearCart
C15_Witness ==
  /\ loaded /\ ~last.raised
  /\ last.op = "clear" /\ last.n = 2
  /\ cart = EmptyCart
  /\ badge = [hidden |-> TRUE, text |-> Num(2)]

\* id is attached to the page
Attached(ns, id) == \E j \in 1..Len(ns) : ns[j] = id

\* C17: a timer of a notification changes no other notification, neither
\* its animation nor its place in the page, and every notification in the
\* page leaves it again.
C17_TimersActOnOwnNotification ==
  /\ [][last'.op \in {"fade", "dismiss"}
        => \A other \in NoteIds \ {last'.idx} :
             /\ noteEl'[other] = noteEl[other]
             /\ Attached(notes', other) = Attached(notes, other)]_vars
  /\ \A id \in NoteIds : Attached(notes, id) ~> ~Attached(notes, id)

\* the remove timer of a replaced notification has run and the newer
\* notification is in the page as it was shown
C17_Witness ==
  /\ last.op = "dismiss"
  /\ Len(notes) = 1 /\ notes[1] # last.idx
  /\ noteEl[notes[1]].anim = "slideInRight"
  /\ noteEl[notes[1]].timer = "t3000"
  /\ noteEl[last.idx] = NoNote

\* C18: whatever text the storage key held when the page loaded, the cart
\* is constructed, its in-memory cart is a list, and no construction,
\* addItem, removeItem or clearCart raises.
C18_CartIsList ==
  /\ loaded
  /\ cart.k = "array"
  /\ (last.op \in {"construct", "add", "remove", "clear"} => ~last.raised)

----------------------------------------------------------------------------
\* The claims about the data loader.

\* C7: loadJSON never raises to its caller; when the fetch fails (rejected,
\* not OK, body not JSON) it returns the empty mapping for content.json and
\* the empty sequence for every other name.
C7_LoadJSONNeverRaises ==
  lastLoad # NoLoad =>
    /\ ~lastLoad.raised
    /\ lastLoad.outcome \in FailedOutcomes =>
         lastLoad.value = (IF lastLoad.file = "content.json" THEN EmptyMapping
                           ELSE EmptySequence)

C7_Witness ==
  /\ lastLoad.file = "content.json"
  /\ lastLoad.outcome = "rejected"
  /\ lastLoad.value = EmptyMapping
  /\ ~lastLoad.raised

\* the loadContent() calls that have returned
Returned ==
  { r \in { ret["h"][c] : c \in HandlerCallers } \cup { ret["o"][c] : c \in OtherCallers } :
      r # NoReturn }

\* C8: within one page load content.json is fetched at most once, and every
\* loadContent() call returns the same cached mapping.
C8_ContentFetchedOnce ==
  /\ fetched <= 1
  /\ Cardinality(Returned) <= 1

\* what a dotted path leads to in a document, read from its last key back:
\* the member of that name of what the rest of the path leads to, Absent when
\* that is not a mapping or has no such member
RECURSIVE Resolved(_, _)
Resolved(d, path) ==
  IF path = << >> THEN Tree(d)
  ELSE LET parent == Resolved(d, SubSeq(path, 1, Len(path) - 1))
           key == path[Len(path)]
       IN IF parent.t = "map" /\ key \in DOMAIN parent.m THEN parent.m[key]
          ELSE Leaf(Absent)

\* applyContent has run in this page load
Applied == hpc \notin {"unloaded", "content.fetch"}

\* C16: once applyContent has run, an element whose path leads to nothing
\* or to null in the loaded content is as the markup had it; any other
\* element had exactly one of its text, its markup or its named attribute
\* written, the one data-content-attr chooses; and the handler did not fail
\* in applyContent.
C16_ApplyContent ==
  Applied =>
    /\ \A e \in DOMAIN Tagged :
         LET found == Resolved(ret["h"]["applyContent"], Tagged[e].path)
             attr == Tagged[e].attr
         IN IF found.t = "leaf" /\ found.v.k \in {"absent", "null"}
            THEN elems[e] = MarkupElement
            ELSE /\ found.t = "leaf"
                 /\ CASE attr \in {Null, Str(""), Str("text")} ->
                           /\ elems[e].body = [how |-> "text", v |-> found.v]
                           /\ elems[e].attribute = MarkupElement.attribute
                      [] attr = Str("html") ->
                           /\ elems[e].body = [how |-> "html", v |-> found.v]
                           /\ elems[e].attribute = MarkupElement.attribute
                      [] OTHER ->
                           /\ elems[e].body = MarkupElement.body
                           /\ elems[e].attribute = found.v
    /\ (ContainerFile(page) = "" => hpc = "done")

\* content.json loaded: text, markup and attribute were written where the
\* path leads to a value, an empty string included, and the elements whose
\* path leads to null or misses a key are as authored
C16_Witness ==
  /\ Applied
  /\ ret["h"]["applyContent"] = Doc("mapping", "content.json")
  /\ elems["title"].body = [how |-> "text", v |-> Str("PZ Emporium")]
  /\ elems["button"].body = [how |-> "html", v |-> Str("Add to Cart")]
  /\ elems["link"].attribute = Str("https://example.org")
  /\ elems["motto"].body = [how |-> "text", v |-> Str("")]
  /\ elems["logo"] = MarkupElement
  /\ elems["tagline"] = MarkupElement

====
